---- MODULE Spec2Model ----
(***************************************************************************)
(* Model of src/main.go: a single-peer WebRTC echo relay.  The main        *)
(* goroutine fetches TURN credentials, builds the transport objects,       *)
(* negotiates by copy/paste and idles; the RTCP drain goroutine, one relay *)
(* loop per inbound track and the connection-state handler run beside it.  *)
(***************************************************************************)
EXTENDS Integers, Sequences, FiniteSets, TLC

\* ---- bounds of the model ------------------------------------------------
MaxTracks == 2        \* inbound tracks the transport may report
MaxPackets == 2       \* RTP packets delivered over all inbound tracks
MaxRtcp == 1          \* RTCP feedback packets delivered to the sender
MaxTransitions == 3   \* connection-state transitions the ICE agent reports
MaxStdin == 4         \* characters of an input stream given to readUntilNewline
MaxSdp == 3           \* characters of an SDP text given to encode

Tracks == 1..MaxTracks

VARIABLES
    mainPc,           \* position of func main
    proc,             \* "running", "exit0" (os.Exit(0)) or "exit2" (panic)
    mainErr,          \* the step of main whose error was passed to panic
    httpCalls,        \* client.Do calls made by getTurnCredentials
    resp,             \* the issuer's response to the credential request
    turnCredentials,  \* result of getTurnCredentials: [err, cred]
    objects,          \* transport objects constructed so far
    config,           \* ICE servers of the webrtc.Configuration
    deferInstalled,   \* the deferred peerConnection.Close() is installed
    stdin,            \* the text the operator feeds to standard input
    stdinPos,         \* characters of stdin consumed by the reader
    token,            \* the line returned by readUntilNewline
    offer,            \* the SessionDescription filled by decode
    answer,           \* the description returned by CreateAnswer
    localDescription, \* peerConnection.LocalDescription()
    calls,            \* negotiation calls made on peerConnection, in order
    printed,          \* lines printed on stdout
    onTrackSet,       \* OnTrack handler registered
    onStateSet,       \* OnConnectionStateChange handler registered
    iceStarted,       \* SetLocalDescription succeeded: the ICE agent runs
    gatherComplete,   \* the channel of GatheringCompletePromise
    iceGathering,     \* ICE gathering state of the transport
    connState,        \* PeerConnectionState held by the transport
    transitions,      \* transitions reported by the ICE agent so far
    pending,          \* handler invocations spawned by the transport
    handled,          \* states the state-change handler was invoked with
    exitCalls,        \* os.Exit calls issued
    rtcpPc,           \* RTCP drain goroutine: "none", "read", "done"
    rtcpAvail,        \* feedback packets waiting on rtpSender
    rtcpReads,        \* rtpSender.Read calls that returned a packet
    senderStopped,    \* rtpSender torn down by peerConnection.Close()
    started,          \* the inbound tracks reported to the OnTrack handler
    missedTracks,     \* tracks reported while no handler was registered
    missedStates,     \* transitions reported while no handler was registered
    relayPc,          \* per track: "none", "read", "write", "panic"
    delivered,        \* RTP packets delivered to the inbound tracks so far
    inQ,              \* per track: packets waiting in track.ReadRTP
    readLog,          \* per track: packets returned by track.ReadRTP
    held,             \* per track: the packet between read and write
    writeLog,         \* per track: packets passed to outputTrack.WriteRTP
    outbound,         \* packets accepted by outputTrack, in write order
    relayErr          \* per track: "none", "read" or "write" failure

vars == <<mainPc, proc, mainErr, httpCalls, resp, turnCredentials, objects,
          config,
          deferInstalled, stdin, stdinPos, token, offer, answer,
          localDescription, calls,
          printed, onTrackSet, onStateSet, iceStarted, gatherComplete, iceGathering, connState,
          transitions, pending, handled, exitCalls, rtcpPc, rtcpAvail,
          rtcpReads, senderStopped, started, missedTracks,
          missedStates, relayPc, delivered, inQ, readLog, held, writeLog, outbound,
          relayErr>>

credVars == <<httpCalls, resp, turnCredentials, config>>
negVars == <<stdin, stdinPos, token, offer, answer, localDescription, calls,
             printed,
             onTrackSet, onStateSet, iceStarted, gatherComplete, iceGathering>>
connVars == <<connState, transitions, pending, handled, exitCalls,
              missedStates>>
rtcpVars == <<rtcpPc, rtcpAvail, rtcpReads>>
relayVars == <<started, missedTracks, relayPc, delivered, inQ, readLog, held, writeLog,
               outbound, relayErr>>

\* ---- Credential Broker ---------------------------------------------------
StatusCreated == 201

NoCred == [urls |-> <<>>, username |-> "", credential |-> ""]

\* Response bodies of the issuer: bytes that are not JSON, a JSON object
\* whose iceServers lacks username and credential, and a complete one.
Bodies ==
    {[json |-> FALSE, cred |-> NoCred]} \cup
    {[json |-> TRUE, cred |-> c] : c \in
        {[urls |-> <<"turn:a">>, username |-> "", credential |-> ""],
         [urls |-> <<"turn:a">>, username |-> "u", credential |-> "c"]}}

NoResponse ==
    [requestOk |-> FALSE, doErr |-> FALSE, status |-> 0,
     body |-> [json |-> FALSE, cred |-> NoCred]]

\* cred is <<>> for a nil *TurnCredentials and <<c>> for a pointer to c
NoResult == [err |-> "unset", status |-> 0, cred |-> <<>>]

Responses ==
    [requestOk : BOOLEAN, doErr : BOOLEAN,
     status : {200, StatusCreated, 403}, body : Bodies]

\* json.NewDecoder(resp.Body).Decode(&credentials): a field the body lacks
\* keeps its zero value; only a body that is not JSON is an error.
DecodeCredentials(body) ==
    IF body.json THEN [err |-> "none", cred |-> body.cred]
    ELSE [err |-> "json", cred |-> NoCred]

\* fmt.Errorf("failed to get TURN credentials, status: %s", resp.Status)
StatusError(status) == [err |-> "status", status |-> status, cred |-> <<>>]

\* variant: every status below 300 is accepted
getTurnCredentialsAny2xx(r) ==
    IF ~r.requestOk THEN [err |-> "request", status |-> 0, cred |-> <<>>]
    ELSE IF r.doErr THEN [err |-> "transport", status |-> 0, cred |-> <<>>]
    ELSE IF r.status >= 300 THEN StatusError(r.status)
    ELSE LET d == DecodeCredentials(r.body)
         IN IF d.err # "none"
            THEN [err |-> d.err, status |-> 0, cred |-> <<>>]
            ELSE [err |-> "none", status |-> 0, cred |-> <<d.cred>>]

\* main.go 217-252
getTurnCredentials(r) ==
    IF ~r.requestOk THEN [err |-> "request", status |-> 0, cred |-> <<>>]
    ELSE IF r.doErr THEN [err |-> "transport", status |-> 0, cred |-> <<>>]
    ELSE IF r.status # StatusCreated THEN StatusError(r.status)
    ELSE LET d == DecodeCredentials(r.body)
         IN IF d.err # "none"
            THEN [err |-> d.err, status |-> 0, cred |-> <<>>]
            ELSE [err |-> "none", status |-> 0, cred |-> <<d.cred>>]

\* variant: a failed call is retried once
HttpCallsRetry(r) == IF r.requestOk THEN (IF r.doErr THEN 2 ELSE 1) ELSE 0

\* client.Do is reached only when http.NewRequest succeeded.
HttpCallsOf(r) == IF r.requestOk THEN 1 ELSE 0

\* ---- Session Codec -------------------------------------------------------
\* Go strings and byte slices are sequences of byte values; the texts of
\* the model are ASCII.  A SessionDescription is its two exported fields:
\* type is the name of the SDPType ("" for the zero value), sdp the text.
NoDescription == [type |-> "", sdp |-> <<>>]

\* the SDPType values and their JSON names
SdpTypes == {"offer", "pranswer", "answer", "rollback"}

\* SDPType.String
TypeName(ty) ==
    CASE ty = "offer" -> <<111, 102, 102, 101, 114>>
      [] ty = "pranswer" -> <<112, 114, 97, 110, 115, 119, 101, 114>>
      [] ty = "answer" -> <<97, 110, 115, 119, 101, 114>>
      [] ty = "rollback" -> <<114, 111, 108, 108, 98, 97, 99, 107>>
      [] OTHER -> <<117, 110, 107, 110, 111, 119, 110>>  \* unknown

\* F applied to the value of e, which is worked out once before F uses it
Apply(F(_), e) == CHOOSE y \in {F(x) : x \in {e}} : TRUE

Apply3(F(_, _, _), b, i, acc) ==
    CHOOSE y \in {F(x, j, a) : x \in {b}, j \in {i}, a \in {acc}} : TRUE

\* the least and the greatest element of a non-empty set of numbers
Min(S) == CHOOSE x \in S : \A y \in S : x <= y

Max(S) == CHOOSE x \in S : \A y \in S : y <= x

\* a hexadecimal digit, lower case, and the value of one (-1: not a digit)
HexChar(n) == IF n < 10 THEN 48 + n ELSE 87 + n

HexVal(c) ==
    IF c \in 48..57 THEN c - 48
    ELSE IF c \in 97..102 THEN c - 87
    ELSE IF c \in 65..70 THEN c - 55
    ELSE 0 - 1

\* variant: the quotation mark is written as it is
EscapeCharRaw(c) ==
    CASE c = 92 -> <<92, 92>>
      [] c = 10 -> <<92, 110>>
      [] c = 13 -> <<92, 114>>
      [] c = 9 -> <<92, 116>>
      [] c < 32 \/ c \in {60, 62, 38} ->
            <<92, 117, 48, 48, HexChar(c \div 16), HexChar(c % 16)>>
      [] OTHER -> <<c>>

\* json.Marshal writes a string: " and \ get a backslash, newline, return
\* and tab their letter, other control characters and < > & the form \u00xx
EscapeChar(c) ==
    CASE c = 34 -> <<92, 34>>
      [] c = 92 -> <<92, 92>>
      [] c = 10 -> <<92, 110>>
      [] c = 13 -> <<92, 114>>
      [] c = 9 -> <<92, 116>>
      [] c < 32 \/ c \in {60, 62, 38} ->
            <<92, 117, 48, 48, HexChar(c \div 16), HexChar(c % 16)>>
      [] OTHER -> <<c>>

RECURSIVE Escape(_)
Escape(s) ==
    IF s = <<>> THEN <<>> ELSE EscapeChar(Head(s)) \o Escape(Tail(s))

\* a JSON string literal
Quote(s) == <<34>> \o Escape(s) \o <<34>>

\* json.Marshal(obj) of a SessionDescription: {"type":"...","sdp":"..."}
Marshal(d) ==
    <<123, 34, 116, 121, 112, 101, 34, 58>> \o Quote(TypeName(d.type))
        \o <<44, 34, 115, 100, 112, 34, 58>> \o Quote(d.sdp) \o <<125>>

\* the base64 alphabet: A-Z a-z 0-9 + /
EncChar(i) ==
    IF i < 26 THEN 65 + i
    ELSE IF i < 52 THEN 71 + i
    ELSE IF i < 62 THEN i - 4
    ELSE IF i = 62 THEN 43 ELSE 47

\* the value of a base64 character (-1: not in the alphabet)
DecChar(c) ==
    IF c \in 65..90 THEN c - 65
    ELSE IF c \in 97..122 THEN c - 71
    ELSE IF c \in 48..57 THEN c + 4
    ELSE IF c = 43 THEN 62
    ELSE IF c = 47 THEN 63
    ELSE 0 - 1

\* base64.StdEncoding.EncodeToString: three bytes give four characters, the
\* last group is padded with =
RECURSIVE EncodeToString(_)
EncodeToString(b) ==
    IF b = <<>> THEN <<>>
    ELSE IF Len(b) = 1
    THEN <<EncChar(b[1] \div 4), EncChar((b[1] % 4) * 16), 61, 61>>
    ELSE IF Len(b) = 2
    THEN <<EncChar(b[1] \div 4),
           EncChar((b[1] % 4) * 16 + b[2] \div 16),
           EncChar((b[2] % 16) * 4), 61>>
    ELSE <<EncChar(b[1] \div 4),
           EncChar((b[1] % 4) * 16 + b[2] \div 16),
           EncChar((b[2] % 16) * 4 + b[3] \div 64),
           EncChar(b[3] % 64)>>
             \o Apply(EncodeToString, SubSeq(b, 4, Len(b)))

\* base64.StdEncoding.DecodeString of a line without CR and LF: groups of
\* four characters, padding only in the last group
RECURSIVE DecodeString(_)
DecodeString(s) ==
    LET Corrupt == [err |-> TRUE, b |-> <<>>]
    IN IF s = <<>> THEN [err |-> FALSE, b |-> <<>>]
       ELSE IF Len(s) < 4 THEN Corrupt
       ELSE
         LET q1 == DecChar(s[1])
             q2 == DecChar(s[2])
             q3 == DecChar(s[3])
             q4 == DecChar(s[4])
             b1 == q1 * 4 + q2 \div 16
             b2 == (q2 % 16) * 16 + q3 \div 4
             b3 == (q3 % 4) * 64 + q4
             last == Len(s) = 4
             Join(r) ==
                 IF r.err THEN Corrupt
                 ELSE [err |-> FALSE, b |-> <<b1, b2, b3>> \o r.b]
         IN IF q1 < 0 \/ q2 < 0 THEN Corrupt
            ELSE IF s[3] = 61
            THEN IF last /\ s[4] = 61
                 THEN [err |-> FALSE, b |-> <<b1>>]
                 ELSE Corrupt
            ELSE IF q3 < 0 THEN Corrupt
            ELSE IF s[4] = 61
            THEN IF last THEN [err |-> FALSE, b |-> <<b1, b2>>] ELSE Corrupt
            ELSE IF q4 < 0 THEN Corrupt
            ELSE Apply(Join, Apply(DecodeString, SubSeq(s, 5, Len(s))))

\* strings.ToLower on ASCII text
Lower(s) == [i \in 1..Len(s) |-> IF s[i] \in 65..90 THEN s[i] + 32 ELSE s[i]]

\* the character written after a backslash, and the one it stands for
Unescape ==
    (34 :> 34) @@ (92 :> 92) @@ (47 :> 47) @@ (98 :> 8) @@ (102 :> 12)
        @@ (110 :> 10) @@ (114 :> 13) @@ (116 :> 9)

\* the JSON scanner reads a string whose opening quote is before b[i]:
\* val is the text, next the position after the closing quote
RECURSIVE ParseString(_, _, _)
ParseString(b, i, acc) ==
    LET Bad == [ok |-> FALSE, val |-> <<>>, next |-> i]
    IN IF i > Len(b) THEN Bad
       ELSE IF b[i] = 34 THEN [ok |-> TRUE, val |-> acc, next |-> i + 1]
       ELSE IF b[i] < 32 THEN Bad
       ELSE IF b[i] # 92 THEN Apply3(ParseString, b, i + 1, Append(acc, b[i]))
       ELSE IF i + 1 > Len(b) THEN Bad
       ELSE IF b[i + 1] = 117
       THEN IF i + 5 > Len(b) THEN Bad
            ELSE IF \E k \in 2..5 : HexVal(b[i + k]) < 0 THEN Bad
            ELSE Apply3(ParseString, b, i + 6,
                     Append(acc, HexVal(b[i + 2]) * 4096
                                 + HexVal(b[i + 3]) * 256
                                 + HexVal(b[i + 4]) * 16
                                 + HexVal(b[i + 5])))
       ELSE IF b[i + 1] \in DOMAIN Unescape
       THEN Apply3(ParseString, b, i + 2, Append(acc, Unescape[b[i + 1]]))
       ELSE Bad

\* the members of a JSON object with string values, from the opening quote
\* of a key at b[i]: type goes through SDPType.UnmarshalJSON, sdp is
\* stored, other keys are ignored, a repeated key overwrites
RECURSIVE ParseMembers(_, _, _)
ParseMembers(b, i, obj) ==
    LET Bad == [err |-> TRUE, obj |-> NoDescription]
        Member(k, v) ==
            LET key == Lower(k.val)
                named == {ty \in SdpTypes : TypeName(ty) = Lower(v.val)}
                filled ==
                    IF key = <<116, 121, 112, 101>>
                    THEN [obj EXCEPT !.type = CHOOSE ty \in named : TRUE]
                    ELSE IF key = <<115, 100, 112>>
                    THEN [obj EXCEPT !.sdp = v.val]
                    ELSE obj
            IN IF ~v.ok \/ v.next > Len(b) THEN Bad
               ELSE IF key = <<116, 121, 112, 101>> /\ named = {} THEN Bad
               ELSE IF b[v.next] = 125
               THEN IF v.next = Len(b)
                    THEN [err |-> FALSE, obj |-> filled]
                    ELSE Bad
               ELSE IF b[v.next] = 44
               THEN Apply3(ParseMembers, b, v.next + 1, filled)
               ELSE Bad
        Value(k) ==
            LET Both(v) == Member(k, v)
            IN IF ~k.ok \/ k.next + 1 > Len(b) THEN Bad
               ELSE IF b[k.next] # 58 \/ b[k.next + 1] # 34 THEN Bad
               ELSE Apply(Both, Apply3(ParseString, b, k.next + 2, <<>>))
    IN IF i > Len(b) \/ b[i] # 34 THEN Bad
       ELSE Apply(Value, Apply3(ParseString, b, i + 1, <<>>))

\* json.Unmarshal(b, obj) into a zero SessionDescription, for JSON text
\* without white space: null and {} leave obj as it is
Unmarshal(b) ==
    IF b = <<110, 117, 108, 108>> THEN [err |-> FALSE, obj |-> NoDescription]
    ELSE IF Len(b) < 2 \/ b[1] # 123
    THEN [err |-> TRUE, obj |-> NoDescription]
    ELSE IF b[2] = 125
    THEN [err |-> Len(b) # 2, obj |-> NoDescription]
    ELSE Apply3(ParseMembers, b, 2, NoDescription)

\* main.go 195-203
encode(obj) == Apply(EncodeToString, Marshal(obj))

\* main.go 205-215
decode(in) ==
    LET Text(b) ==
            IF b.err THEN [err |-> TRUE, obj |-> NoDescription]
            ELSE Unmarshal(b.b)
    IN Apply(Text, Apply(DecodeString, in))

\* the offer of the remote peer: v=0 and a newline
RemoteOffer == [type |-> "offer", sdp |-> <<118, 61, 48, 10>>]

\* no line was returned yet
NoToken == <<>>

\* Lines the operator may paste
Tokens ==
    {<<110, 111, 116, 45, 98, 97, 115, 101, 54, 52, 33, 33>>,  \* not-base64!!
     Apply(EncodeToString,
           <<110, 111, 116, 32, 106, 115, 111, 110>>),         \* not json
     Apply(EncodeToString,
           <<123, 34, 116, 121, 112, 101, 34, 58, 34, 98, 111, 103, 117, 115,
             34, 125>>),                               \* {"type":"bogus"}
     Apply(EncodeToString, <<123, 125>>),              \* {}
     encode(RemoteOffer)}

\* what the operator types: a blank line and the pasted line, or nothing
\* before the input is closed
MainStdins == {<<10>> \o t \o <<10>> : t \in Tokens} \cup {<<>>}

\* every input of at most MaxStdin characters out of space, newline,
\* carriage return and x
Streams == UNION {[1..n -> {32, 10, 13, 120}] : n \in 0..MaxStdin}

\* every description with an SDP text of at most MaxSdp characters out of
\* v, newline, quotation mark, backslash and <
Descriptions ==
    [type : SdpTypes,
     sdp : UNION {[1..n -> {118, 10, 34, 92, 60}] : n \in 0..MaxSdp}]

\* unicode.IsSpace on ASCII
IsSpace(c) == c \in {9, 10, 11, 12, 13, 32}

\* variant: only the end of the line is trimmed
TrimRight(s) ==
    LET text == {i \in 1..Len(s) : ~IsSpace(s[i])}
    IN IF text = {} THEN <<>> ELSE SubSeq(s, 1, Max(text))

\* strings.TrimSpace
TrimSpace(s) ==
    LET text == {i \in 1..Len(s) : ~IsSpace(s[i])}
    IN IF text = {} THEN <<>> ELSE SubSeq(s, Min(text), Max(text))

\* r.ReadString('\n') on the unread input s: the text up to and including
\* the first newline, or the rest of the input together with io.EOF
ReadString(s) ==
    LET nl == {i \in 1..Len(s) : s[i] = 10}
    IN IF nl = {} THEN [data |-> s, err |-> "EOF"]
       ELSE [data |-> SubSeq(s, 1, Min(nl)), err |-> "nil"]

\* JSON of session-description shape: an object with a type and an sdp.
SessionShaped(in) ==
    LET r == decode(in)
    IN ~r.err /\ r.obj.type # "" /\ r.obj.sdp # <<>>

\* ---- panic and exit ------------------------------------------------------
\* panic(err) in main: with the deferred Close installed the goroutine first
\* unwinds through it; without it the runtime ends the process at once.
PanicMain(step) ==
    /\ mainErr' = step
    /\ IF deferInstalled
       THEN mainPc' = "unwind" /\ proc' = proc
       ELSE mainPc' = "dead" /\ proc' = "exit2"

\* variant: goroutines keep running after the process has ended
RunningAlways == TRUE

\* os.Exit and an unrecovered panic end every goroutine of the process
Running == proc = "running"

\* the state in which func main is entered: main at pc, standard input
\* holding in; d is the local description (none in the program)
Start(pc, in, d) ==
    /\ mainPc = pc
    /\ proc = "running"
    /\ mainErr = "none"
    /\ httpCalls = 0
    /\ resp = NoResponse
    /\ turnCredentials = NoResult
    /\ objects = {}
    /\ config = <<>>
    /\ deferInstalled = FALSE
    /\ stdin = in
    /\ stdinPos = 0
    /\ token = NoToken
    /\ offer = NoDescription
    /\ answer = NoDescription
    /\ localDescription = d
    /\ calls = <<>>
    /\ printed = <<>>
    /\ onTrackSet = FALSE
    /\ onStateSet = FALSE
    /\ iceStarted = FALSE
    /\ gatherComplete = "none"
    /\ iceGathering = "new"
    /\ connState = "new"
    /\ transitions = 0
    /\ pending = <<>>
    /\ handled = <<>>
    /\ exitCalls = 0
    /\ rtcpPc = "none"
    /\ rtcpAvail = 0
    /\ rtcpReads = 0
    /\ senderStopped = FALSE
    /\ started = {}
    /\ missedTracks = {}
    /\ missedStates = <<>>
    /\ relayPc = [t \in Tracks |-> "none"]
    /\ delivered = 0
    /\ inQ = [t \in Tracks |-> 0]
    /\ readLog = [t \in Tracks |-> <<>>]
    /\ held = [t \in Tracks |-> <<>>]
    /\ writeLog = [t \in Tracks |-> <<>>]
    /\ outbound = <<>>
    /\ relayErr = [t \in Tracks |-> "none"]

Init == \E in \in MainStdins : Start("getTurnCredentials", in, NoDescription)

\* ---- func main -----------------------------------------------------------
\* main.go 35-38
FetchCredentials ==
    /\ Running /\ mainPc = "getTurnCredentials"
    /\ \E r \in Responses :
        /\ resp' = r
        /\ UNCHANGED config
        /\ httpCalls' = httpCalls + HttpCallsOf(r)
        /\ turnCredentials' = getTurnCredentials(r)
        /\ IF getTurnCredentials(r).err # "none"
           THEN PanicMain("getTurnCredentials")
           ELSE mainPc' = "NewAPI" /\ UNCHANGED <<proc, mainErr>>
    /\ UNCHANGED <<objects, deferInstalled, negVars, connVars, rtcpVars,
                   senderStopped, relayVars>>

\* main.go 40-65: media engine, interceptors and the API object
NewAPI ==
    /\ Running /\ mainPc = "NewAPI"
    /\ \E ok \in BOOLEAN :
        IF ok
        THEN /\ objects' = objects \cup {"api"}
             /\ mainPc' = "NewPeerConnection"
             /\ UNCHANGED <<proc, mainErr>>
        ELSE PanicMain("NewAPI") /\ UNCHANGED objects
    /\ UNCHANGED <<credVars, deferInstalled, negVars, connVars, rtcpVars,
                   senderStopped, relayVars>>

\* pion rejects a TURN server that comes without a username
Usable(c) == \A i \in 1..Len(c) : c[i].urls # <<>> => c[i].username # ""

\* main.go 67-87: configuration, peer connection, deferred Close
NewPeerConnection ==
    /\ Running /\ mainPc = "NewPeerConnection"
    /\ \E ok \in {b \in BOOLEAN : b => Usable(turnCredentials.cred)} :
        IF ok
        THEN /\ config' = turnCredentials.cred
             /\ objects' = objects \cup {"peerConnection"}
             /\ deferInstalled' = TRUE
             /\ mainPc' = "NewTrack"
             /\ UNCHANGED <<proc, mainErr>>
        ELSE /\ config' = turnCredentials.cred
             /\ PanicMain("NewPeerConnection")
             /\ UNCHANGED <<objects, deferInstalled>>
    /\ UNCHANGED <<httpCalls, resp, turnCredentials, negVars, connVars,
                   rtcpVars, senderStopped, relayVars>>

\* main.go 89-93
NewTrack ==
    /\ Running /\ mainPc = "NewTrack"
    /\ \E ok \in BOOLEAN :
        IF ok
        THEN /\ objects' = objects \cup {"outputTrack"}
             /\ mainPc' = "AddTrack"
             /\ UNCHANGED <<proc, mainErr>>
        ELSE PanicMain("NewTrack") /\ UNCHANGED objects
    /\ UNCHANGED <<credVars, deferInstalled, negVars, connVars, rtcpVars,
                   senderStopped, relayVars>>

\* main.go 95-109: AddTrack, then the RTCP drain goroutine is started
AddTrack ==
    /\ Running /\ mainPc = "AddTrack"
    /\ \E ok \in BOOLEAN :
        IF ok
        THEN /\ objects' = objects \cup {"rtpSender"}
             /\ rtcpPc' = "read"
             /\ mainPc' = "readUntilNewline"
             /\ UNCHANGED <<proc, mainErr>>
        ELSE PanicMain("AddTrack") /\ UNCHANGED <<objects, rtcpPc>>
    /\ UNCHANGED <<credVars, deferInstalled, negVars, connVars, rtcpAvail,
                   rtcpReads, senderStopped, relayVars>>

\* main.go 176-193: one pass of the loop of readUntilNewline; a non-empty
\* trimmed line ends the loop, an empty line is printed and the line is
\* returned; io.EOF is not treated as an error
ReadUntilNewline ==
    /\ Running /\ mainPc = "readUntilNewline"
    /\ LET r == ReadString(SubSeq(stdin, stdinPos + 1, Len(stdin)))
           in == TrimSpace(r.data)
       IN /\ stdinPos' = stdinPos + Len(r.data)
          /\ IF Len(in) > 0
             THEN /\ token' = in
                  /\ printed' = Append(printed, <<>>)
                  /\ mainPc' = "decode"
             ELSE UNCHANGED <<token, printed, mainPc>>
    /\ UNCHANGED <<proc, mainErr, credVars, objects, deferInstalled, stdin,
                   offer, answer, localDescription, calls, onTrackSet,
                   onStateSet, iceStarted, gatherComplete, iceGathering,
                   connVars, rtcpVars, senderStopped, relayVars>>

\* main.go 181-184: ReadString returned an error other than io.EOF
ReadStdinFail ==
    /\ Running /\ mainPc = "readUntilNewline"
    /\ PanicMain("readUntilNewline")
    /\ UNCHANGED <<credVars, objects, deferInstalled, negVars, connVars,
                   rtcpVars, senderStopped, relayVars>>

\* main.go 111-113: decode of the returned line into offer
DecodeOffer ==
    /\ Running /\ mainPc = "decode"
    /\ IF decode(token).err
       THEN PanicMain("decode") /\ UNCHANGED offer
       ELSE /\ offer' = decode(token).obj
            /\ mainPc' = "SetRemoteDescription"
            /\ UNCHANGED <<proc, mainErr>>
    /\ UNCHANGED <<credVars, objects, deferInstalled, stdin, stdinPos, token,
                   answer, localDescription, calls, printed, onTrackSet,
                   onStateSet, iceStarted, gatherComplete, iceGathering,
                   connVars, rtcpVars, senderStopped, relayVars>>

\* pion rejects a description whose type is not set.
Applicable(d) == d.type # ""

\* variant: applying the remote offer already starts the ICE agent
SetRemoteDescriptionStartsIce ==
    /\ Running /\ mainPc = "SetRemoteDescription"
    /\ calls' = Append(calls, "SetRemoteDescription")
    /\ iceStarted' = TRUE
    /\ \E ok \in {b \in BOOLEAN : b => Applicable(offer)} :
        IF ok
        THEN mainPc' = "OnTrack" /\ UNCHANGED <<proc, mainErr>>
        ELSE PanicMain("SetRemoteDescription")
    /\ UNCHANGED <<credVars, objects, deferInstalled, stdin, stdinPos,
                   token, offer, answer,
                   localDescription, printed, onTrackSet, onStateSet,
                   gatherComplete, iceGathering, connVars,
                   rtcpVars, senderStopped, relayVars>>

\* main.go 115-119
SetRemoteDescription ==
    /\ Running /\ mainPc = "SetRemoteDescription"
    /\ calls' = Append(calls, "SetRemoteDescription")
    /\ \E ok \in {b \in BOOLEAN : b => Applicable(offer)} :
        IF ok
        THEN mainPc' = "OnTrack" /\ UNCHANGED <<proc, mainErr>>
        ELSE PanicMain("SetRemoteDescription")
    /\ UNCHANGED <<credVars, objects, deferInstalled, stdin, stdinPos,
                   token, offer, answer,
                   localDescription, printed, onTrackSet, onStateSet,
                   iceStarted, gatherComplete, iceGathering, connVars,
                   rtcpVars, senderStopped, relayVars>>

\* main.go 121-134: the inbound-track handler is registered
OnTrack ==
    /\ Running /\ mainPc = "OnTrack"
    /\ onTrackSet' = TRUE
    /\ mainPc' = "OnConnectionStateChange"
    /\ UNCHANGED <<proc, mainErr, credVars, objects, deferInstalled, stdin,
                   stdinPos, token,
                   offer, answer, localDescription, calls, printed,
                   onStateSet, iceStarted, gatherComplete, iceGathering,
                   connVars, rtcpVars, senderStopped, relayVars>>

\* main.go 136-149: the state-change handler is registered
OnConnectionStateChange ==
    /\ Running /\ mainPc = "OnConnectionStateChange"
    /\ onStateSet' = TRUE
    /\ mainPc' = "CreateAnswer"
    /\ UNCHANGED <<proc, mainErr, credVars, objects, deferInstalled, stdin,
                   stdinPos, token,
                   offer, answer, localDescription, calls, printed,
                   onTrackSet, iceStarted, gatherComplete, iceGathering,
                   connVars, rtcpVars, senderStopped, relayVars>>

\* main.go 151-155
CreateAnswer ==
    /\ Running /\ mainPc = "CreateAnswer"
    /\ calls' = Append(calls, "CreateAnswer")
    /\ \E ok \in BOOLEAN :
        IF ok
        THEN /\ answer' = [type |-> "answer", sdp |-> <<118, 61, 48, 10>>]
             /\ mainPc' = "GatheringCompletePromise"
             /\ UNCHANGED <<proc, mainErr>>
        ELSE PanicMain("CreateAnswer") /\ UNCHANGED answer
    /\ UNCHANGED <<credVars, objects, deferInstalled, stdin, stdinPos,
                   token, offer,
                   localDescription, printed, onTrackSet, onStateSet,
                   iceStarted, gatherComplete, iceGathering, connVars,
                   rtcpVars, senderStopped, relayVars>>

\* main.go 157-158: the promise is already fulfilled when gathering is
\* complete at the time it is created
GatheringCompletePromise ==
    /\ Running /\ mainPc = "GatheringCompletePromise"
    /\ calls' = Append(calls, "GatheringCompletePromise")
    /\ gatherComplete' = IF iceGathering = "complete" THEN "closed" ELSE "open"
    /\ mainPc' = "SetLocalDescription"
    /\ UNCHANGED <<proc, mainErr, credVars, objects, deferInstalled, stdin,
                   stdinPos, token,
                   offer, answer, localDescription, printed, onTrackSet,
                   onStateSet, iceStarted, iceGathering, connVars, rtcpVars,
                   senderStopped, relayVars>>

\* main.go 160-163: on success the ICE agent starts gathering
SetLocalDescription ==
    /\ Running /\ mainPc = "SetLocalDescription"
    /\ calls' = Append(calls, "SetLocalDescription")
    /\ \E ok \in BOOLEAN :
        IF ok
        THEN /\ localDescription' = answer
             /\ iceStarted' = TRUE
             /\ iceGathering' = "gathering"
             /\ mainPc' = "gatherComplete"
             /\ UNCHANGED <<proc, mainErr>>
        ELSE /\ PanicMain("SetLocalDescription")
             /\ UNCHANGED <<localDescription, iceStarted, iceGathering>>
    /\ UNCHANGED <<credVars, objects, deferInstalled, stdin, stdinPos,
                   token, offer, answer,
                   printed, onTrackSet, onStateSet, gatherComplete, connVars,
                   rtcpVars, senderStopped, relayVars>>

\* variant: main does not wait for the promise
WaitGatherCompleteSkipped ==
    /\ Running /\ mainPc = "gatherComplete"
    /\ mainPc' = "Println"
    /\ UNCHANGED <<proc, mainErr, credVars, objects, deferInstalled, negVars,
                   connVars, rtcpVars, senderStopped, relayVars>>

\* main.go 165-166: <-gatherComplete
WaitGatherComplete ==
    /\ Running /\ mainPc = "gatherComplete"
    /\ gatherComplete = "closed"
    /\ mainPc' = "Println"
    /\ UNCHANGED <<proc, mainErr, credVars, objects, deferInstalled, negVars,
                   connVars, rtcpVars, senderStopped, relayVars>>

\* variant: the description CreateAnswer returned is printed, not the
\* transport's local description
PrintAnswerStale ==
    /\ Running /\ mainPc = "Println"
    /\ printed' = Append(printed, encode(answer))
    /\ mainPc' = "select"
    /\ UNCHANGED <<proc, mainErr, credVars, objects, deferInstalled, stdin,
                   stdinPos, token,
                   offer, answer, localDescription, calls, onTrackSet,
                   onStateSet, iceStarted, gatherComplete, iceGathering,
                   connVars, rtcpVars, senderStopped, relayVars>>

\* main.go 168-172: the answer is printed, then main blocks in select {}
PrintAnswer ==
    /\ Running /\ mainPc = "Println"
    /\ printed' = Append(printed, encode(localDescription))
    /\ mainPc' = "select"
    /\ UNCHANGED <<proc, mainErr, credVars, objects, deferInstalled, stdin,
                   stdinPos, token,
                   offer, answer, localDescription, calls, onTrackSet,
                   onStateSet, iceStarted, gatherComplete, iceGathering,
                   connVars, rtcpVars, senderStopped, relayVars>>

\* ---- the transport's state-change reports --------------------------------
\* The transport invokes the registered handler on a goroutine of its own,
\* in the order of its reports; a report made while no handler is
\* registered is delivered to nobody.
Deliver(s) ==
    IF onStateSet
    THEN pending' = Append(pending, s) /\ UNCHANGED missedStates
    ELSE missedStates' = Append(missedStates, s) /\ UNCHANGED pending

\* main.go 83-87: the deferred peerConnection.Close() runs while main
\* panics; Close moves the connection to closed and stops the sender.
DeferredClose ==
    /\ Running /\ mainPc = "unwind"
    /\ connState' = "closed"
    /\ Deliver("closed")
    /\ senderStopped' = TRUE
    /\ mainPc' = "crash"
    /\ UNCHANGED <<proc, mainErr, credVars, objects, deferInstalled, negVars,
                   transitions, handled, exitCalls, rtcpVars, relayVars>>

\* the runtime ends the process once the deferred calls have returned
Crash ==
    /\ Running /\ mainPc = "crash"
    /\ proc' = "exit2"
    /\ mainPc' = "dead"
    /\ UNCHANGED <<mainErr, credVars, objects, deferInstalled, negVars,
                   connVars, rtcpVars, senderStopped, relayVars>>

\* PeerConnectionState transitions the ICE agent can report
Successors(s) ==
    CASE s = "new" -> {"connecting"}
      [] s = "connecting" -> {"connected", "failed"}
      [] s = "connected" -> {"disconnected", "failed"}
      [] s = "disconnected" -> {"connected", "failed"}
      [] OTHER -> {}

\* the ICE agent reports a transition of the connection state
ReportState ==
    /\ Running /\ iceStarted /\ connState # "closed"
    /\ transitions < MaxTransitions
    /\ \E s \in Successors(connState) :
        /\ connState' = s
        /\ Deliver(s)
    /\ transitions' = transitions + 1
    /\ UNCHANGED <<mainPc, proc, mainErr, credVars, objects, deferInstalled,
                   negVars, handled, exitCalls, rtcpVars, senderStopped,
                   relayVars>>

\* variant: the handler also exits on disconnected
TerminalAlsoDisconnected(s) ==
    s = "failed" \/ s = "closed" \/ s = "disconnected"

\* main.go 137-149: body of the OnConnectionStateChange handler
Terminal(s) == s = "failed" \/ s = "closed"

StateHandler ==
    /\ Running
    /\ pending # <<>>
    /\ handled' = Append(handled, Head(pending))
    /\ pending' = Tail(pending)
    /\ IF Terminal(Head(pending))
       THEN exitCalls' = exitCalls + 1 /\ proc' = "exit0"
       ELSE UNCHANGED <<exitCalls, proc>>
    /\ UNCHANGED <<mainPc, mainErr, credVars, objects, deferInstalled,
                   negVars, connState, transitions, missedStates, rtcpVars,
                   senderStopped, relayVars>>

\* the candidate line the ICE agent adds to the local description:
\* a=candidate and a newline
Candidate == <<97, 61, 99, 97, 110, 100, 105, 100, 97, 116, 101, 10>>

\* the ICE agent finishes gathering: the promise channel is closed and the
\* local description carries the candidates
GatheringDone ==
    /\ Running /\ iceGathering = "gathering"
    /\ iceGathering' = "complete"
    /\ gatherComplete' = IF gatherComplete = "open" THEN "closed"
                         ELSE gatherComplete
    /\ localDescription' = [localDescription EXCEPT !.sdp = @ \o Candidate]
    /\ UNCHANGED <<mainPc, proc, mainErr, credVars, objects, deferInstalled,
                   stdin, stdinPos, token, offer, answer, calls, printed,
                   onTrackSet,
                   onStateSet, iceStarted, connVars, rtcpVars, senderStopped,
                   relayVars>>

\* ---- RTCP drain goroutine, main.go 101-109 -------------------------------
\* a feedback packet arrives for the sender
RtcpArrive ==
    /\ Running /\ iceStarted
    /\ rtcpAvail + rtcpReads < MaxRtcp
    /\ rtcpAvail' = rtcpAvail + 1
    /\ UNCHANGED <<mainPc, proc, mainErr, credVars, objects, deferInstalled,
                   negVars, connVars, rtcpPc, rtcpReads, senderStopped,
                   relayVars>>

\* rtpSender.Read returned a packet: it is discarded and the loop goes on
RtcpRead ==
    /\ Running /\ rtcpPc = "read" /\ rtcpAvail > 0
    /\ rtcpAvail' = rtcpAvail - 1
    /\ rtcpReads' = rtcpReads + 1
    /\ UNCHANGED <<mainPc, proc, mainErr, credVars, objects, deferInstalled,
                   negVars, connVars, rtcpPc, senderStopped,
                   relayVars>>

\* variant: the failed read is treated as fatal
RtcpReadFailFatal ==
    /\ Running /\ rtcpPc = "read"
    /\ senderStopped \/ iceStarted
    /\ rtcpPc' = "done"
    /\ proc' = "exit2"
    /\ UNCHANGED <<mainPc, mainErr, credVars, objects, deferInstalled,
                   negVars, connVars, rtcpAvail, rtcpReads,
                   senderStopped, relayVars>>

\* rtpSender.Read returned an error: the goroutine returns
RtcpReadFail ==
    /\ Running /\ rtcpPc = "read"
    /\ senderStopped \/ iceStarted
    /\ rtcpPc' = "done"
    /\ UNCHANGED <<mainPc, proc, mainErr, credVars, objects, deferInstalled,
                   negVars, connVars, rtcpAvail, rtcpReads,
                   senderStopped, relayVars>>

\* ---- relay loops, main.go 122-134 ----------------------------------------
\* the transport detects the next inbound track and calls the handler
ReportTrack ==
    /\ Running /\ iceStarted
    /\ \E t \in Tracks :
        /\ t = Cardinality(started \cup missedTracks) + 1
        /\ IF onTrackSet
           THEN /\ started' = started \cup {t}
                /\ relayPc' = [relayPc EXCEPT ![t] = "read"]
                /\ UNCHANGED missedTracks
           ELSE /\ missedTracks' = missedTracks \cup {t}
                /\ UNCHANGED <<started, relayPc>>
    /\ UNCHANGED <<mainPc, proc, mainErr, credVars, objects, deferInstalled,
                   negVars, connVars, rtcpVars, senderStopped, delivered,
                   inQ, readLog, held, writeLog, outbound, relayErr>>

\* an RTP packet arrives on an inbound track
RtpArrive(t) ==
    /\ Running /\ t \in started /\ delivered < MaxPackets
    /\ delivered' = delivered + 1
    /\ inQ' = [inQ EXCEPT ![t] = @ + 1]
    /\ UNCHANGED <<mainPc, proc, mainErr, credVars, objects, deferInstalled,
                   negVars, connVars, rtcpVars, senderStopped, started,
                   missedTracks, relayPc, readLog, held, writeLog, outbound,
                   relayErr>>

\* the n-th packet of track t
Packet(t, n) == [track |-> t, seq |-> n]

\* variant: the failure only ends the loop of that track
PanicRelayContained(t, what) ==
    /\ relayErr' = [relayErr EXCEPT ![t] = what]
    /\ relayPc' = [relayPc EXCEPT ![t] = "panic"]
    /\ proc' = proc

\* a panic on a goroutine other than main ends the process; the deferred
\* call of main does not run
PanicRelay(t, what) ==
    /\ relayErr' = [relayErr EXCEPT ![t] = what]
    /\ relayPc' = [relayPc EXCEPT ![t] = "panic"]
    /\ proc' = "exit2"

\* variant: the read waits for the RTCP drain goroutine to be alive
RelayReadGated(t) ==
    /\ Running /\ relayPc[t] = "read" /\ inQ[t] > 0
    /\ rtcpPc = "read"
    /\ inQ' = [inQ EXCEPT ![t] = @ - 1]
    /\ readLog' = [readLog EXCEPT ![t] = Append(@, Packet(t, Len(@) + 1))]
    /\ held' = [held EXCEPT ![t] = <<Packet(t, Len(readLog[t]) + 1)>>]
    /\ relayPc' = [relayPc EXCEPT ![t] = "write"]
    /\ UNCHANGED <<mainPc, proc, mainErr, credVars, objects, deferInstalled,
                   negVars, connVars, rtcpVars, senderStopped, started,
                   missedTracks, delivered, writeLog, outbound, relayErr>>

\* variant: the next packet is read while the previous one is still held
RelayReadAhead(t) ==
    /\ Running /\ relayPc[t] \in {"read", "write"} /\ inQ[t] > 0
    /\ inQ' = [inQ EXCEPT ![t] = @ - 1]
    /\ readLog' = [readLog EXCEPT ![t] = Append(@, Packet(t, Len(@) + 1))]
    /\ held' = [held EXCEPT ![t] = <<Packet(t, Len(readLog[t]) + 1)>>]
    /\ relayPc' = [relayPc EXCEPT ![t] = "write"]
    /\ UNCHANGED <<mainPc, proc, mainErr, credVars, objects, deferInstalled,
                   negVars, connVars, rtcpVars, senderStopped, started,
                   missedTracks, delivered, writeLog, outbound, relayErr>>

\* main.go 125-128: track.ReadRTP returned a packet
RelayRead(t) ==
    /\ Running /\ relayPc[t] = "read" /\ inQ[t] > 0
    /\ inQ' = [inQ EXCEPT ![t] = @ - 1]
    /\ readLog' = [readLog EXCEPT ![t] = Append(@, Packet(t, Len(@) + 1))]
    /\ held' = [held EXCEPT ![t] = <<Packet(t, Len(readLog[t]) + 1)>>]
    /\ relayPc' = [relayPc EXCEPT ![t] = "write"]
    /\ UNCHANGED <<mainPc, proc, mainErr, credVars, objects, deferInstalled,
                   negVars, connVars, rtcpVars, senderStopped, started,
                   missedTracks, delivered, writeLog, outbound, relayErr>>

\* main.go 125-128: track.ReadRTP returned an error
RelayReadFail(t) ==
    /\ Running /\ relayPc[t] = "read"
    /\ PanicRelay(t, "read")
    /\ UNCHANGED <<mainPc, mainErr, credVars, objects, deferInstalled,
                   negVars, connVars, rtcpVars, senderStopped, started,
                   missedTracks, delivered, inQ, readLog, held, writeLog,
                   outbound>>

\* variant: a successful write is repeated
RelayWriteTwice(t) ==
    /\ Running /\ relayPc[t] = "write"
    /\ \E ok \in BOOLEAN :
        IF ok
        THEN /\ writeLog' = [writeLog EXCEPT
                                ![t] = Append(Append(@, held[t][1]), held[t][1])]
             /\ outbound' = Append(Append(outbound, held[t][1]), held[t][1])
             /\ held' = [held EXCEPT ![t] = <<>>]
             /\ relayPc' = [relayPc EXCEPT ![t] = "read"]
             /\ UNCHANGED <<proc, relayErr>>
        ELSE /\ writeLog' = [writeLog EXCEPT ![t] = Append(@, held[t][1])]
             /\ PanicRelay(t, "write")
             /\ UNCHANGED <<outbound, held>>
    /\ UNCHANGED <<mainPc, mainErr, credVars, objects, deferInstalled,
                   negVars, connVars, rtcpVars, senderStopped, started,
                   missedTracks, delivered, inQ, readLog>>

\* main.go 130-132: outputTrack.WriteRTP(rtp)
RelayWrite(t) ==
    /\ Running /\ relayPc[t] = "write"
    /\ writeLog' = [writeLog EXCEPT ![t] = Append(@, held[t][1])]
    /\ \E ok \in BOOLEAN :
        IF ok
        THEN /\ outbound' = Append(outbound, held[t][1])
             /\ held' = [held EXCEPT ![t] = <<>>]
             /\ relayPc' = [relayPc EXCEPT ![t] = "read"]
             /\ UNCHANGED <<proc, relayErr>>
        ELSE /\ PanicRelay(t, "write")
             /\ UNCHANGED <<outbound, held>>
    /\ UNCHANGED <<mainPc, mainErr, credVars, objects, deferInstalled,
                   negVars, connVars, rtcpVars, senderStopped, started,
                   missedTracks, delivered, inQ, readLog>>

Next ==
    \/ FetchCredentials
    \/ NewAPI
    \/ NewPeerConnection
    \/ NewTrack
    \/ AddTrack
    \/ ReadUntilNewline
    \/ ReadStdinFail
    \/ DecodeOffer
    \/ SetRemoteDescription
    \/ OnTrack
    \/ OnConnectionStateChange
    \/ CreateAnswer
    \/ GatheringCompletePromise
    \/ SetLocalDescription
    \/ WaitGatherComplete
    \/ PrintAnswer
    \/ DeferredClose
    \/ Crash
    \/ ReportState
    \/ StateHandler
    \/ GatheringDone
    \/ RtcpArrive
    \/ RtcpRead
    \/ RtcpReadFail
    \/ ReportTrack
    \/ \E t \in Tracks : RtpArrive(t)
    \/ \E t \in Tracks : RelayRead(t)
    \/ \E t \in Tracks : RelayReadFail(t)
    \/ \E t \in Tracks : RelayWrite(t)

Spec == Init /\ [][Next]_vars

\* ---- readUntilNewline on every input ------------------------------------
\* main up to the return of readUntilNewline, fed every input stream
ReadInit == \E in \in Streams : Start("getTurnCredentials", in, NoDescription)

ReadNext ==
    \/ FetchCredentials
    \/ NewAPI
    \/ NewPeerConnection
    \/ NewTrack
    \/ AddTrack
    \/ ReadUntilNewline
    \/ ReadStdinFail
    \/ DeferredClose
    \/ Crash

ReadSpec == ReadInit /\ [][ReadNext]_vars

\* ---- encode and decode on every description ------------------------------
\* encode is applied to a description, decode to the line encode returned
CodecInit == \E d \in Descriptions : Start("encode", <<>>, d)

\* main.go 195-203 applied to localDescription
Encode ==
    /\ mainPc = "encode"
    /\ printed' = Append(printed, encode(localDescription))
    /\ mainPc' = "paste"
    /\ UNCHANGED <<proc, mainErr, credVars, objects, deferInstalled, stdin,
                   stdinPos, token, offer, answer, localDescription, calls,
                   onTrackSet, onStateSet, iceStarted, gatherComplete,
                   iceGathering, connVars, rtcpVars, senderStopped,
                   relayVars>>

\* main.go 205-215 applied to the printed line
Decode ==
    /\ mainPc = "paste"
    /\ token' = printed[1]
    /\ IF decode(printed[1]).err
       THEN mainErr' = "decode" /\ UNCHANGED offer
       ELSE offer' = decode(printed[1]).obj /\ UNCHANGED mainErr
    /\ mainPc' = "decoded"
    /\ UNCHANGED <<proc, credVars, objects, deferInstalled, stdin, stdinPos,
                   answer, localDescription, calls, printed, onTrackSet,
                   onStateSet, iceStarted, gatherComplete, iceGathering,
                   connVars, rtcpVars, senderStopped, relayVars>>

CodecNext == Encode \/ Decode

CodecSpec == CodecInit /\ [][CodecNext]_vars

\* ---- properties ----------------------------------------------------------
\* the packets of inbound track t accepted by outputTrack, in write order
OutboundOf(t) ==
    LET FromT(p) == p.track = t
    IN SelectSeq(outbound, FromT)

\* the non-empty lines printed on stdout: the answers
Answers ==
    LET NonEmpty(l) == l # <<>>
    IN SelectSeq(printed, NonEmpty)

ErrorRaised == mainErr # "none" \/ \E t \in Tracks : relayErr[t] # "none"

\* C1: over the transitions the state-change handler was invoked with, the
\* process issues at most one os.Exit, with status 0, exactly on the first
\* failed or closed transition, and none on an earlier transition.
StateChangeTermination ==
    /\ exitCalls <= 1
    /\ exitCalls = 1 => (handled # <<>> /\ proc = "exit0")
    /\ \A i \in 1..Len(handled) :
          handled[i] \in {"failed", "closed"}
              <=> (i = Len(handled) /\ exitCalls = 1)

\* new -> connecting -> connected -> failed ended the process on failed
StateChangeTerminationWitness ==
    /\ handled = <<"connecting", "connected", "failed">>
    /\ exitCalls = 1
    /\ proc = "exit0"

\* C2 (as stated): the process exits with status 0 only when no
\* unrecoverable error was raised; every error ends it with status 2.
ExitZeroOnlyWithoutError ==
    proc = "exit0" => ~ErrorRaised

\* C3: the packets a relay loop passes to WriteRTP are the packets it read
\* from its track, in the same order and unchanged, all of them once the
\* loop is back at ReadRTP; outputTrack holds them in that order.
RelayOrderPreserved ==
    \A t \in Tracks :
        /\ Len(writeLog[t]) <= Len(readLog[t])
        /\ \A i \in 1..Len(writeLog[t]) : writeLog[t][i] = readLog[t][i]
        /\ \A i \in 1..Len(readLog[t]) :
              readLog[t][i] = [track |-> t, seq |-> i]
        /\ relayPc[t] # "write" => writeLog[t] = readLog[t]
        /\ OutboundOf(t) =
              IF relayErr[t] = "write"
              THEN SubSeq(writeLog[t], 1, Len(writeLog[t]) - 1)
              ELSE writeLog[t]

\* two packets of one track were read and forwarded
RelayOrderPreservedWitness ==
    \E t \in Tracks :
        /\ Len(readLog[t]) = 2
        /\ relayPc[t] = "read"
        /\ OutboundOf(t) = readLog[t]

\* C4 (as stated): after a failed read the loop has forwarded every packet
\* it read and ends cleanly, no panic reaching the rest of the process.
ReadFailureContained ==
    \A t \in Tracks :
        relayErr[t] = "read" =>
            /\ Len(OutboundOf(t)) = Len(readLog[t])
            /\ proc # "exit2"

\* C4 (amended): after a failed read following k successful reads the loop
\* has forwarded exactly those k packets, and the failure ends the whole
\* process with the status of a panic.
ReadFailureForwardsThenPanics ==
    \A t \in Tracks :
        relayErr[t] = "read" =>
            /\ OutboundOf(t) = readLog[t]
            /\ writeLog[t] = readLog[t]
            /\ relayPc[t] = "panic"
            /\ proc = "exit2"

\* the read of a track failed after two packets were read from it
ReadFailureWitness ==
    \E t \in Tracks :
        /\ relayErr[t] = "read"
        /\ Len(readLog[t]) = 2
        /\ Len(outbound) = 2

RelayFailed == \E t \in Tracks : relayErr[t] # "none"

\* C5: a failed ReadRTP or WriteRTP ends the process: once it has happened
\* the process has the status of a panic, no relay loop reads or writes a
\* packet and the RTCP drain goroutine reads nothing.
RelayFailureFatal ==
    /\ [](RelayFailed => proc = "exit2")
    /\ [][RelayFailed =>
             UNCHANGED <<readLog, writeLog, outbound, held, rtcpReads,
                         rtcpAvail, rtcpPc>>]_vars

\* a write failed while the other loop held a packet and the drain
\* goroutine was still reading
RelayFailureFatalWitness ==
    /\ \E t \in Tracks : relayErr[t] = "write"
    /\ \E t \in Tracks : relayPc[t] = "write" /\ relayErr[t] = "none"
    /\ rtcpPc = "read"
    /\ rtcpAvail > 0
    /\ proc = "exit2"

\* a loop that has something to read or to write can take its step
CanStep ==
    /\ \A t \in Tracks :
          /\ (Running /\ relayPc[t] = "read" /\ inQ[t] > 0)
                => ENABLED RelayRead(t)
          /\ (Running /\ relayPc[t] = "write") => ENABLED RelayWrite(t)
    /\ (Running /\ rtcpPc = "read" /\ rtcpAvail > 0) => ENABLED RtcpRead

\* a step of one loop changes nothing of the other
Disjoint ==
    /\ <<relayPc, readLog, held, writeLog, outbound>>
          # <<relayPc', readLog', held', writeLog', outbound'>>
          => UNCHANGED rtcpVars
    /\ <<rtcpPc, rtcpReads>> # <<rtcpPc', rtcpReads'>>
          => UNCHANGED relayVars

\* C6: neither loop waits for the other: while the process runs, a relay
\* loop with a packet to read or to write can take its step whatever the
\* feedback channel does, the drain goroutine can read a waiting feedback
\* packet whatever the inbound tracks do, and a step of one loop leaves the
\* variables of the other unchanged.
LoopsIndependent == []CanStep /\ [][Disjoint]_vars

\* the feedback channel failed before any feedback was read, a relay loop
\* has forwarded a packet and has another one to read
LoopsIndependentWitness ==
    /\ Running /\ rtcpPc = "done" /\ rtcpReads = 0
    /\ \E t \in Tracks : relayPc[t] = "read" /\ inQ[t] > 0
    /\ outbound # <<>>

\* main is past the call of getTurnCredentials
Fetched == mainPc # "getTurnCredentials"

CredentialsSuccessIffCreated ==
    Fetched =>
        /\ turnCredentials.err = "none" <=>
              (resp.requestOk /\ ~resp.doErr /\ resp.status = 201
               /\ resp.body.json)
        /\ turnCredentials.err = "none" <=> turnCredentials.cred # <<>>
        /\ (resp.requestOk /\ ~resp.doErr /\ resp.status # 201) =>
              (turnCredentials.err = "status"
               /\ turnCredentials.status = resp.status)

\* the issuer answered 200 with a well-formed body
CredentialsSuccessIffCreatedWitness ==
    /\ Fetched
    /\ resp.requestOk /\ ~resp.doErr /\ resp.status = 200 /\ resp.body.json
    /\ turnCredentials.err = "status"

\* C9 (as stated): a successful result has a non-empty URL list, username
\* and credential.
CredentialShape ==
    turnCredentials.err = "none" =>
        /\ turnCredentials.cred[1].urls # <<>>
        /\ turnCredentials.cred[1].username # ""
        /\ turnCredentials.cred[1].credential # ""

\* C10 (as stated): after a token that is not base64 of a JSON session
\* description, SetRemoteDescription, CreateAnswer and SetLocalDescription
\* are never called and no answer is printed.
MalformedOfferAborts ==
    (token # NoToken /\ ~SessionShaped(token)) =>
        /\ calls = <<>>
        /\ Answers = <<>>

\* the transport calls of the negotiation, in program order
NegotiationCalls ==
    <<"SetRemoteDescription", "CreateAnswer", "GatheringCompletePromise",
      "SetLocalDescription">>

\* the local description once gathering is complete: the answer with the
\* candidate line, and the line encode makes of it
Gathered == [type |-> "answer", sdp |-> <<118, 61, 48, 10>> \o Candidate]

GatheredLine == encode(Gathered)

\* C11: the negotiation calls are made once each and in program order; the
\* answer is printed at most once, and only after the offer was decoded and
\* applied, the answer created and set as local description and gathering
\* reported complete; what is printed is the transport's local description
\* as it is after gathering completed.
NegotiationOnceInOrder ==
    /\ Len(calls) <= Len(NegotiationCalls)
    /\ calls = SubSeq(NegotiationCalls, 1, Len(calls))
    /\ calls # <<>> => (token # NoToken /\ mainPc # "decode")
    /\ Len(Answers) <= 1
    /\ Answers # <<>> =>
          /\ calls = NegotiationCalls
          /\ offer.type = "offer"
          /\ answer.type = "answer"
          /\ localDescription.type = "answer"
          /\ iceGathering = "complete"
          /\ gatherComplete = "closed"
          /\ localDescription = Gathered
          /\ localDescription # answer
          /\ Answers[1] = GatheredLine

\* the answer was printed and main idles
NegotiationOnceInOrderWitness ==
    /\ mainPc = "select"
    /\ Len(Answers) = 1
    /\ Answers[1] = encode(localDescription)
    /\ localDescription = Gathered
    /\ iceGathering = "complete"

Writers == {t \in Tracks : relayPc[t] = "write"}

\* C14 (as stated): at any time at most one relay loop is writing to the
\* outbound track, whatever the number of inbound tracks reported.
SingleWriter == Cardinality(Writers) <= 1

\* once the drain goroutine has returned it reads nothing, and the step
\* that ends it changes nothing but its own position
DrainStops ==
    /\ rtcpPc = "done" => (rtcpPc' = "done" /\ rtcpReads' = rtcpReads)
    /\ (rtcpPc = "read" /\ rtcpPc' = "done") =>
          /\ proc' = proc
          /\ mainErr' = mainErr /\ mainPc' = mainPc
          /\ relayErr' = relayErr
          /\ UNCHANGED <<rtcpAvail, rtcpReads, relayVars, connVars>>

\* after the drain goroutine has returned the relay loops and the
\* state-change handler still take their steps
OthersRun ==
    (rtcpPc = "done" /\ proc = "running") =>
        /\ \A t \in Tracks :
              /\ (relayPc[t] = "read" /\ inQ[t] > 0) => ENABLED RelayRead(t)
              /\ relayPc[t] = "write" => ENABLED RelayWrite(t)
        /\ pending # <<>> => ENABLED StateHandler

\* C15: the RTCP drain loop ends at its first failed read and reads nothing
\* afterwards; its end is silent: the process is not terminated, no error
\* is raised, and the relay loops and the state-change handler go on.
DrainEndsSilently == []OthersRun /\ [][DrainStops]_vars

\* the drain goroutine has returned with feedback left unread while the
\* process runs, a relay loop holds a packet and a transition was handled
DrainEndsSilentlyWitness ==
    /\ rtcpPc = "done" /\ rtcpAvail > 0
    /\ proc = "running"
    /\ \E t \in Tracks : relayPc[t] = "write"
    /\ handled # <<>>

\* C16: in every state of a relay loop the packets read from the track
\* exceed the packets accepted by the outbound track by at most one, and by
\* exactly one while the loop holds a packet for WriteRTP: the next packet
\* is read only after the previous one was written.
ReadAheadAtMostOne ==
    \A t \in Tracks :
        LET r == Len(readLog[t])
            w == Len(OutboundOf(t))
        IN /\ w <= r /\ r <= w + 1
           /\ Len(held[t]) <= 1
           /\ relayPc[t] = "read" => (r = w /\ held[t] = <<>>)
           /\ relayPc[t] = "write" =>
                 (r = w + 1 /\ held[t] = <<readLog[t][r]>>)

\* a loop holds its second packet after the first one was written
ReadAheadAtMostOneWitness ==
    \E t \in Tracks :
        /\ relayPc[t] = "write"
        /\ Len(readLog[t]) = 2
        /\ Len(OutboundOf(t)) = 1

\* ---- liveness ------------------------------------------------------------
\* the Go scheduler runs the main goroutine whenever it is runnable
LiveSpec ==
    /\ Spec
    /\ WF_vars(WaitGatherComplete)
    /\ WF_vars(PrintAnswer)

\* the promise exists from before SetLocalDescription starts the ICE
\* agent, it is closed exactly when gathering is complete, and main is past
\* the barrier only then
BarrierArmed ==
    /\ iceGathering # "new" => gatherComplete # "none"
    /\ gatherComplete = "closed" <=> iceGathering = "complete"
    /\ mainPc \in {"Println", "select"} => iceGathering = "complete"

\* main has printed the answer and blocks in select {}
Idle == mainPc = "select" /\ Len(Answers) = 1

\* C17: the promise is created before SetLocalDescription, so the completion
\* of gathering is never missed: once the transport reports gathering
\* complete, main passes the barrier and prints the answer unless the
\* process is terminated first, and from then on main idles for ever.
BarrierPassed ==
    /\ []BarrierArmed
    /\ (iceGathering = "complete") ~> (Idle \/ proc # "running")
    /\ [][Idle => Idle']_vars

\* gathering completed while main was waiting at the barrier, and main has
\* gone on to print
BarrierPassedWitness ==
    /\ Idle /\ proc = "running"
    /\ iceGathering = "complete"
    /\ localDescription.sdp = <<118, 61, 48, 10>> \o Candidate
    /\ decode(Answers[1]).obj = localDescription

\* C13: for every description d with one of the four SDP types,
\* decode(encode(d)) succeeds and gives d back field for field; the line
\* decoded is the value of encode on d, which depends on d alone.
RoundTrip ==
    /\ mainPc \in {"paste", "decoded"} =>
          (printed = <<encode(localDescription)>> /\ printed[1] # <<>>)
    /\ mainPc = "decoded" =>
          /\ token = printed[1]
          /\ mainErr = "none"
          /\ offer.type = localDescription.type
          /\ offer.sdp = localDescription.sdp

\* a description whose SDP holds a quotation mark, a backslash and a
\* newline came back unchanged
RoundTripWitness ==
    /\ mainPc = "decoded"
    /\ localDescription = [type |-> "pranswer", sdp |-> <<34, 92, 10>>]
    /\ offer = localDescription

\* C18: the line readUntilNewline returns is the first line of the input
\* that is not blank, without the white space around it: it starts at the
\* first character of the input that is not white space and ends at the
\* last such character of that line, whether or not a newline ends the
\* line; it is never empty, and the reader has consumed that line.
ReadResult ==
    /\ mainPc = "decode" <=> token # NoToken
    /\ token # NoToken =>
          LET text == {i \in 1..Len(stdin) : ~IsSpace(stdin[i])}
          IN /\ text # {}
             /\ LET p == Min(text)
                    ends == {i \in p..Len(stdin) : stdin[i] = 10}
                    e == IF ends = {} THEN Len(stdin) ELSE Min(ends)
                    q == Max({i \in text : i <= e})
                IN /\ token = SubSeq(stdin, p, q)
                   /\ stdinPos = e

\* a blank line, then a line with spaces around x and no newline at its end
ReadResultWitness ==
    /\ mainPc = "decode"
    /\ stdin = <<10, 32, 120, 32>>
    /\ token = <<120>>
    /\ stdinPos = 4

\* C19 (as stated): every pass of the loop of readUntilNewline consumes
\* input or ends the loop, so that the loop ends on every input stream,
\* also on one that is closed before a non-blank line.
ReadTerminates ==
    (proc = "running" /\ mainPc = "readUntilNewline")
        => ENABLED <<ReadUntilNewline>>_vars

====
